---- MODULE Spec2Model ----
(***************************************************************************)
(* A model of the ppromise library (src/src/lib.rs): the PromiseState      *)
(* state machine, the Promise continuation API (then / then_move and the   *)
(* *_promise variants) and the join combinators.                           *)
(*                                                                         *)
(* A promise is an index into `heap` (the Rc<RefCell<PromiseState<T>>>     *)
(* cells).  Closures are data: a record naming the closure expression of   *)
(* the source it stands for, what it captured and the promise it resolves. *)
(* A client call is one action; everything the call runs synchronously     *)
(* (continuations firing, derived promises resolving, nested registration) *)
(* is computed inside that action by the recursive operators below, which  *)
(* thread a "world" record [heap, log, panic, bmut, bshr].  A panic stops  *)
(* the client: the heap is left as the unwinding leaves it.                *)
(*                                                                         *)
(* Values: an i32 is an integer, a tuple or a Vec is a sequence.           *)
(***************************************************************************)
EXTENDS Integers, Sequences, FiniteSets, TLC

\* Bounds of the model.
MaxPromises == 4      \* client registrations stop once the heap holds this many cells
MaxInputs == 3        \* longest input list of the list join
MaxJobs == 2          \* exec_async calls

\* Input values of resolve / Promise::resolved, and the client's transforms.
Vals == {5, 7}
\* Where several promises are resolved, each with a value of its own: 5, 7, 9, ..
InputVal(p) == 2 * p + 3
Fns == {"dbl", "tpl"}

VARIABLES
    heap,     \* Seq of PromiseState: the cells, a promise is its index
    log,      \* ghost: every registration, closure call and resolution so far
    panic,    \* NoPanic, or the message of the panic that stopped the client
    owned,    \* the promises the client holds a Promise<T> handle to
    roots,    \* the promises the client created itself (new / resolved)
    joins,    \* ghost: the joins made, [kind, inputs, out]
    last,     \* ghost: the client's last call [op, self, v, ret, at, pre]; pre is
              \* the state of self before it, or what a try_resolve_all pass found
    running,  \* AsyncRunner.running: Seq of the records [job, p]
    pool,     \* AsyncRunner.pool: 0 for None, else the threads of the pool
    jobs,     \* the jobs submitted: [st, chan, rx, p, missed, ord], in submission order
    poll      \* the try_resolve_all pass in progress, if any

vars == <<heap, log, panic, owned, roots, joins, last, running, pool, jobs, poll>>

\* The state of the AsyncRunner and of its worker threads.
async == <<running, pool, jobs, poll>>

NoPanic == "none"

----------------------------------------------------------------------------
\* enum PromiseState<T>

Unresolved == [tag |-> "Unresolved"]
Moved == [tag |-> "Moved"]
Resolved(val) == [tag |-> "Resolved", value |-> val]
Then(ts, then) == [tag |-> "Then", ts |-> ts, then |-> then]
ThenMove(t) == [tag |-> "ThenMove", t |-> t]

\* The outcome of a PromiseState method that panics instead of returning.
PanicSt(msg) == [tag |-> "Panic", msg |-> msg]

\* Mutant: the match arm names the wrong variant.
is_resolved_wrong_variant(st) == st.tag = "Moved"

is_resolved(st) == st.tag = "Resolved"

is_moved(st) == st.tag = "Moved"

\* Mutant: the new continuation goes to the front of the list.
insert_then_front(st, c) ==
    CASE st.tag = "Unresolved" -> Then(<<c>>, Unresolved)
      [] st.tag = "Then" -> Then(<<c>> \o st.ts, st.then)
      [] st.tag = "ThenMove" -> Then(<<c>>, ThenMove(st.t))
      [] OTHER -> PanicSt("internal error: entered unreachable code")

\* Mutant: wrapping a queued ThenMove loses it.
insert_then_drops_move(st, c) ==
    CASE st.tag = "Unresolved" -> Then(<<c>>, Unresolved)
      [] st.tag = "Then" -> Then(Append(st.ts, c), st.then)
      [] st.tag = "ThenMove" -> Then(<<c>>, Unresolved)
      [] OTHER -> PanicSt("internal error: entered unreachable code")

\* Mutant: a further by-reference continuation wraps the Then it finds.
insert_then_nests(st, c) ==
    CASE st.tag = "Unresolved" -> Then(<<c>>, Unresolved)
      [] st.tag = "Then" -> Then(<<c>>, st)
      [] st.tag = "ThenMove" -> Then(<<c>>, ThenMove(st.t))
      [] OTHER -> PanicSt("internal error: entered unreachable code")

insert_then(st, c) ==
    CASE st.tag = "Unresolved" -> Then(<<c>>, Unresolved)
      [] st.tag = "Then" -> Then(Append(st.ts, c), st.then)
      [] st.tag = "ThenMove" -> Then(<<c>>, ThenMove(st.t))
      [] OTHER -> PanicSt("internal error: entered unreachable code")

RECURSIVE insert_then_move(_, _)
insert_then_move(st, c) ==
    CASE st.tag = "Unresolved" -> ThenMove(c)
      [] st.tag = "Then" ->
            LET n == insert_then_move(st.then, c)
            IN  IF n.tag = "Panic" THEN n ELSE Then(st.ts, n)
      [] st.tag = "ThenMove" -> PanicSt("Cannot move value out of promise twice.")
      [] OTHER -> PanicSt("internal error: entered unreachable code")

----------------------------------------------------------------------------
\* Closures and transforms as data.

\* A transform handed to then / then_move / then_promise / then_move_promise:
\* fn names the closure expression, cap the values and ps the promises it captured.
Transform(fn, cap, ps) == [fn |-> fn, cap |-> cap, ps |-> ps]

\* The closure a then-method hands to _then / _then_move: k names the method
\* whose closure expression it is, target is the captured p_state.
Closure(k, tr, target) ==
    [k |-> k, fn |-> tr.fn, cap |-> tr.cap, ps |-> tr.ps, target |-> target]

\* |v2| p_state.resolve(v2)
FwdClosure(target) == Closure("fwd", Transform("id", <<>>, <<>>), target)

ByValueKinds == {"then_move", "then_move_promise", "fwd"}
ByRefKinds == {"then", "then_promise"}

\* Mutant: the pair is built the other way round.
ApplyFn_pair_swapped(fn, cap, v) ==
    CASE fn = "dbl" -> v * 2
      [] fn = "tpl" -> v * 3
      [] fn = "vec1" -> <<v>>
      [] fn = "push" -> Append(v, cap[1])
      [] fn = "pair" -> <<v, cap[1]>>
      [] fn = "triple" -> <<cap[1], cap[2], v>>

\* Mutant: xs.push(x) puts x in front.
ApplyFn_push_front(fn, cap, v) ==
    CASE fn = "dbl" -> v * 2
      [] fn = "tpl" -> v * 3
      [] fn = "vec1" -> <<v>>
      [] fn = "push" -> <<cap[1]>> \o v
      [] fn = "pair" -> <<cap[1], v>>
      [] fn = "triple" -> <<cap[1], cap[2], v>>

\* The value-returning transforms: the client's (|val| val * 2, |val| val * 3)
\* and the closures of the join combinators.
ApplyFn(fn, cap, v) ==
    CASE fn = "dbl" -> v * 2
      [] fn = "tpl" -> v * 3
      [] fn = "vec1" -> <<v>>
      [] fn = "push" -> Append(v, cap[1])
      [] fn = "pair" -> <<cap[1], v>>
      [] fn = "triple" -> <<cap[1], cap[2], v>>

----------------------------------------------------------------------------
\* The world threaded through one client call.

Ok(w) == w.panic = NoPanic

Panic(w, msg) == [w EXCEPT !.panic = msg]

Event(ev, k, p, src, v) == [ev |-> ev, k |-> k, p |-> p, src |-> src, v |-> v]

Log(w, e) == [w EXCEPT !.log = Append(@, e)]

InSeq(s, x) == \E i \in 1..Len(s) : s[i] = x

Pop(s) == SubSeq(s, 1, Len(s) - 1)

\* Rc::new(RefCell::new(st))
Alloc(w, st) == [w EXCEPT !.heap = Append(@, st)]

RECURSIVE call(_, _, _), call_all(_, _, _), callP(_, _, _)
RECURSIVE transform(_, _, _), resolve(_, _, _, _)
RECURSIVE _then_move(_, _, _), _then(_, _, _)
RECURSIVE then_move(_, _, _), then_move_promise(_, _, _)

\* Mutant: the by-value continuation is run and the value is kept as well.
transform_keeps_value(w, st, val) ==
    CASE st.tag = "Unresolved" -> [w |-> w, st |-> Resolved(val)]
      [] st.tag = "Then" ->
            LET w1 == call_all(w, st.ts, val)
            IN  IF Ok(w1) THEN transform(w1, st.then, val)
                ELSE [w |-> w1, st |-> Unresolved]
      [] st.tag = "ThenMove" -> [w |-> call(w, st.t, val), st |-> Resolved(val)]
      [] OTHER ->
            [w |-> Panic(w, "internal error: entered unreachable code"),
             st |-> Unresolved]

\* PromiseState::transform: fold the old state against the value.
transform(w, st, val) ==
    CASE st.tag = "Unresolved" -> [w |-> w, st |-> Resolved(val)]
      [] st.tag = "Then" ->
            LET w1 == call_all(w, st.ts, val)
            IN  IF Ok(w1) THEN transform(w1, st.then, val)
                ELSE [w |-> w1, st |-> Unresolved]
      [] st.tag = "ThenMove" -> [w |-> call(w, st.t, val), st |-> Unresolved]
      [] OTHER ->
            [w |-> Panic(w, "internal error: entered unreachable code"),
             st |-> Unresolved]

\* for transform in transforms { transform.call_box((&value,)); }
call_all(w, ts, val) ==
    IF ts = <<>> \/ ~Ok(w) THEN w
    ELSE call_all(call(w, Head(ts), val), Tail(ts), val)

\* ResolvableState::resolve (by names the caller: "resolve" for the client's
\* Promise::resolve, else the kind of the closure that resolves its target).
resolve(w, self, val, by) ==
    IF ~Ok(w) THEN w
    ELSE IF InSeq(w.bmut, self) \/ InSeq(w.bshr, self)
    THEN Panic(w, "already borrowed: BorrowMutError")
    ELSE LET st == w.heap[self]
             w1 == [w EXCEPT !.heap[self] = Unresolved, !.bmut = Append(@, self)]
             r  == transform(w1, st, val)
         IN  IF ~Ok(r.w) THEN r.w
             ELSE Log([r.w EXCEPT !.heap[self] = r.st, !.bmut = Pop(@)],
                      Event("resolved", by, self, 0, val))

\* Promise::_then_move
_then_move(w, self, c) ==
    IF ~Ok(w) THEN w
    ELSE IF InSeq(w.bmut, self)
    THEN Panic(w, "already mutably borrowed: BorrowError")
    ELSE IF is_moved(w.heap[self])
    THEN Panic(w, "Trying to move promise value that has already been moved.")
    ELSE IF InSeq(w.bshr, self)
    THEN Panic(w, "already borrowed: BorrowMutError")
    ELSE IF is_resolved(w.heap[self])
    THEN LET val == w.heap[self].value
             w1 == [w EXCEPT !.heap[self] = Moved, !.bmut = Append(@, self)]
             w2 == call(w1, c, val)
         IN  IF ~Ok(w2) THEN w2
             ELSE Log([w2 EXCEPT !.bmut = Pop(@)],
                      Event("reg", c.k, c.target, self, c.fn))
    ELSE LET n == insert_then_move(w.heap[self], c)
         IN  IF n.tag = "Panic"
             THEN Panic([w EXCEPT !.heap[self] = Unresolved], n.msg)
             ELSE Log([w EXCEPT !.heap[self] = n],
                      Event("reg", c.k, c.target, self, c.fn))

\* Promise::_then
_then(w, self, c) ==
    IF ~Ok(w) THEN w
    ELSE IF InSeq(w.bmut, self)
    THEN Panic(w, "already mutably borrowed: BorrowError")
    ELSE IF is_moved(w.heap[self])
    THEN Panic(w, "Trying to borrow promise value that has already been moved.")
    ELSE IF w.heap[self].tag = "Resolved"
    THEN LET val == w.heap[self].value
             w1 == [w EXCEPT !.bshr = Append(@, self)]
             w2 == call(w1, c, val)
         IN  IF ~Ok(w2) THEN w2
             ELSE Log([w2 EXCEPT !.bshr = Pop(@)],
                      Event("reg", c.k, c.target, self, c.fn))
    ELSE IF InSeq(w.bshr, self)
    THEN Panic(w, "already borrowed: BorrowMutError")
    ELSE LET n == insert_then(w.heap[self], c)
         IN  IF n.tag = "Panic"
             THEN Panic([w EXCEPT !.heap[self] = Unresolved], n.msg)
             ELSE Log([w EXCEPT !.heap[self] = n],
                      Event("reg", c.k, c.target, self, c.fn))

\* Promise::then_move: returns [w, p], p the new Promise<T2>.
then_move(w, self, tr) ==
    IF ~Ok(w) THEN [w |-> w, p |-> 0]
    ELSE LET p == Len(w.heap) + 1
         IN  [w |-> _then_move(Alloc(w, Unresolved), self,
                               Closure("then_move", tr, p)),
              p |-> p]

\* Promise::then
then(w, self, tr) ==
    IF ~Ok(w) THEN [w |-> w, p |-> 0]
    ELSE LET p == Len(w.heap) + 1
         IN  [w |-> _then(Alloc(w, Unresolved), self, Closure("then", tr, p)),
              p |-> p]

\* Promise::then_move_promise
then_move_promise(w, self, tr) ==
    IF ~Ok(w) THEN [w |-> w, p |-> 0]
    ELSE LET p == Len(w.heap) + 1
         IN  [w |-> _then_move(Alloc(w, Unresolved), self,
                               Closure("then_move_promise", tr, p)),
              p |-> p]

\* Promise::then_promise
then_promise(w, self, tr) ==
    IF ~Ok(w) THEN [w |-> w, p |-> 0]
    ELSE LET p == Len(w.heap) + 1
         IN  [w |-> _then(Alloc(w, Unresolved), self,
                          Closure("then_promise", tr, p)),
              p |-> p]

\* Mutant: value() finds nothing in any state.
value_never(st) == <<>>

\* Promise::value on a cell: Some(v) is <<v>>, None is <<>>.
value(st) == IF st.tag = "Resolved" THEN <<st.value>> ELSE <<>>

\* Mutant: into_value reads the state and leaves it in place.
into_value_leaves_state(w, self) ==
    IF is_resolved(w.heap[self])
    THEN [w |-> w, ret |-> <<w.heap[self].value>>]
    ELSE [w |-> Panic(w, "Trying to call into_value on non-value promise."),
          ret |-> <<>>]

\* Promise::into_value: [w, ret], ret the value returned as <<v>>, or <<>>
\* when the call panicked.
into_value(w, self) ==
    IF InSeq(w.bmut, self) \/ InSeq(w.bshr, self)
    THEN [w |-> Panic(w, "already borrowed: BorrowMutError"), ret |-> <<>>]
    ELSE LET state == w.heap[self]
             w1 == [w EXCEPT !.heap[self] = Moved]
         IN  IF state.tag = "Resolved"
             THEN [w |-> w1, ret |-> <<state.value>>]
             ELSE [w |-> Panic(w1, "Trying to call into_value on non-value promise."),
                   ret |-> <<>>]

\* Promise::resolved
resolved(w, val) ==
    [w |-> Log(Alloc(w, Resolved(val)),
               Event("resolved", "ctor", Len(w.heap) + 1, 0, val)),
     p |-> Len(w.heap) + 1]

\* The promise-returning transforms, run on the value: [w, p].
callP(w, c, val) ==
    CASE c.fn = "resolved_dbl" ->     \* |val| Promise::resolved(val * 2)
            resolved(w, val * 2)
      [] c.fn = "captured" ->         \* move |_| q
            [w |-> w, p |-> c.ps[1]]
      [] c.fn = "join2_inner" ->      \* |x1| p1.then_move(|x2| (x1, x2))
            then_move(w, c.ps[1], Transform("pair", <<val>>, <<>>))
      [] c.fn = "join3_mid" ->        \* |x1| p1.then_move_promise(|x2| ...)
            then_move_promise(w, c.ps[1],
                              Transform("join3_inner", <<val>>, <<c.ps[2]>>))
      [] c.fn = "join3_inner" ->      \* |x2| p2.then_move(|x3| (x1, x2, x3))
            then_move(w, c.ps[1],
                      Transform("triple", <<c.cap[1], val>>, <<>>))
      [] c.fn = "list_step" ->        \* |x| p.then_move(|xs| { xs.push(x); xs })
            then_move(w, c.ps[1], Transform("push", <<val>>, <<>>))

\* Running a closure handed to _then / _then_move.
call(w, c, val) ==
    IF ~Ok(w) THEN w
    ELSE LET w0 == Log(w, Event("begin", c.k, c.target, 0, val))
             w1 == CASE c.k \in {"then", "then_move"} ->
                           resolve(w0, c.target, ApplyFn(c.fn, c.cap, val), c.k)
                      [] c.k \in {"then_promise", "then_move_promise"} ->
                           LET r == callP(w0, c, val)
                           IN  _then_move(r.w, r.p, FwdClosure(c.target))
                      [] c.k = "fwd" ->
                           resolve(w0, c.target, val, c.k)
         IN  IF Ok(w1) THEN Log(w1, Event("end", c.k, c.target, 0, 0)) ELSE w1

----------------------------------------------------------------------------
\* The join combinators: [w, p], p the joined promise.

\* Mutant: the pair join does not wait for its second input.
join_first_only(w, p1, p2) ==
    then_move(w, p1, Transform("pair", <<0>>, <<>>))

\* Mutant: the pair join registers on its second input first.
join_second_first(w, p1, p2) ==
    then_move_promise(w, p2, Transform("join2_inner", <<>>, <<p1>>))

\* Joinable<(T1, T2)>::join, and the function join
join(w, p1, p2) ==
    then_move_promise(w, p1, Transform("join2_inner", <<>>, <<p2>>))

\* Joinable<(T1, T2, T3)>::join, and the function join3
join3(w, p1, p2, p3) ==
    then_move_promise(w, p1, Transform("join3_mid", <<>>, <<p2, p3>>))

\* for i in 1..self.len() { p = self[i].then_move_promise(move |x| ..p..) }
RECURSIVE join_vec_loop(_, _, _)
join_vec_loop(r, ps, i) ==
    IF i > Len(ps) \/ ~Ok(r.w) THEN r
    ELSE join_vec_loop(then_move_promise(r.w, ps[i],
                                         Transform("list_step", <<>>, <<r.p>>)),
                       ps, i + 1)

\* Joinable<Vec<T>> for Vec<&mut Promise<T>>::join
join_vec(w, ps) ==
    join_vec_loop(then_move(w, ps[1], Transform("vec1", <<>>, <<>>)), ps, 2)

\* Joinable<Vec<T>> for Vec<Promise<T>>::join:
\* self.iter_mut().collect::<Vec<&mut Promise<T>>>().join()
join_vec_owned(w, ps) == join_vec(w, ps)

----------------------------------------------------------------------------
\* The client.

World == [heap |-> heap, log |-> log, panic |-> panic, bmut |-> <<>>, bshr |-> <<>>]

Commit(w) ==
    /\ heap' = w.heap
    /\ log' = w.log
    /\ panic' = w.panic

Last(op, self, v, ret) ==
    [op |-> op, self |-> self, v |-> v, ret |-> ret, at |-> Len(log),
     pre |-> IF self = 0 THEN Unresolved ELSE heap[self]]

\* No try_resolve_all pass is in progress.
NoPoll == [on |-> FALSE, todo |-> <<>>, kept |-> <<>>,
           before |-> <<>>, avail |-> {}, at |-> 0]

\* No AsyncRunner: the promises are resolved by the client alone.
NoRunner ==
    /\ running = <<>>
    /\ pool = 0
    /\ jobs = <<>>
    /\ poll = NoPoll

\* The client thread has not panicked and is between two calls.
Running == panic = NoPanic /\ ~poll.on

CanRegister == Running /\ Len(heap) < MaxPromises

Init ==
    /\ heap = <<Unresolved>>
    /\ log = <<>>
    /\ panic = NoPanic
    /\ owned = {1}
    /\ roots = {1}
    /\ joins = <<>>
    /\ last = Last("new", 0, 0, 1)
    /\ NoRunner

\* p.resolve(v), by the producer of p
Resolve(p, v) ==
    /\ Running
    /\ p \in roots
    /\ Commit(resolve(World, p, v, "resolve"))
    /\ last' = Last("resolve", p, v, 0)
    /\ UNCHANGED <<owned, roots, joins, async>>

\* p.then(f)
ThenOp(p, f) ==
    /\ CanRegister
    /\ p \in owned
    /\ LET r == then(World, p, Transform(f, <<>>, <<>>))
       IN  /\ Commit(r.w)
           /\ owned' = owned \cup {r.p}
           /\ last' = Last("then", p, f, r.p)
    /\ UNCHANGED <<roots, joins, async>>

\* p.then_move(f)
ThenMoveOp(p, f) ==
    /\ CanRegister
    /\ p \in owned
    /\ LET r == then_move(World, p, Transform(f, <<>>, <<>>))
       IN  /\ Commit(r.w)
           /\ owned' = owned \cup {r.p}
           /\ last' = Last("then_move", p, f, r.p)
    /\ UNCHANGED <<roots, joins, async>>

\* p.then_promise(|val| Promise::resolved(val * 2))
ThenPromiseOp(p) ==
    /\ CanRegister
    /\ p \in owned
    /\ LET r == then_promise(World, p, Transform("resolved_dbl", <<>>, <<>>))
       IN  /\ Commit(r.w)
           /\ owned' = owned \cup {r.p}
           /\ last' = Last("then_promise", p, "resolved_dbl", r.p)
    /\ UNCHANGED <<roots, joins, async>>

\* p.then_move_promise(|val| Promise::resolved(val * 2))
ThenMovePromiseOp(p) ==
    /\ CanRegister
    /\ p \in owned
    /\ LET r == then_move_promise(World, p, Transform("resolved_dbl", <<>>, <<>>))
       IN  /\ Commit(r.w)
           /\ owned' = owned \cup {r.p}
           /\ last' = Last("then_move_promise", p, "resolved_dbl", r.p)
    /\ UNCHANGED <<roots, joins, async>>

\* p.then_promise(move |_| q): the transform returns a promise the client
\* made before; the handle q moves into the closure.
ThenPromiseCapturedOp(p, q) ==
    /\ CanRegister
    /\ p \in owned
    /\ q \in owned \ {p}
    /\ LET r == then_promise(World, p, Transform("captured", <<>>, <<q>>))
       IN  /\ Commit(r.w)
           /\ owned' = (owned \ {q}) \cup {r.p}
           /\ last' = Last("then_promise", p, "captured", r.p)
           /\ joins' = Append(joins, [kind |-> "then_promise",
                                      inputs |-> <<p, q>>, out |-> r.p])
    /\ roots' = roots \ {q}
    /\ UNCHANGED async

\* p.then_move_promise(move |_| q)
ThenMovePromiseCapturedOp(p, q) ==
    /\ CanRegister
    /\ p \in owned
    /\ q \in owned \ {p}
    /\ LET r == then_move_promise(World, p, Transform("captured", <<>>, <<q>>))
       IN  /\ Commit(r.w)
           /\ owned' = (owned \ {q}) \cup {r.p}
           /\ last' = Last("then_move_promise", p, "captured", r.p)
           /\ joins' = Append(joins, [kind |-> "then_move_promise",
                                      inputs |-> <<p, q>>, out |-> r.p])
    /\ roots' = roots \ {q}
    /\ UNCHANGED async

Next ==
    \/ \E p \in 1..Len(heap), v \in Vals : Resolve(p, v)
    \/ \E p \in 1..Len(heap), f \in Fns : ThenOp(p, f)
    \/ \E p \in 1..Len(heap), f \in Fns : ThenMoveOp(p, f)
    \/ \E p \in 1..Len(heap) : ThenPromiseOp(p)
    \/ \E p \in 1..Len(heap) : ThenMovePromiseOp(p)

Spec == Init /\ [][Next]_vars

\* p.into_value(): the call consumes the handle.
IntoValueOp(p) ==
    /\ Running
    /\ p \in owned
    /\ LET r == into_value(World, p)
       IN  /\ Commit(r.w)
           /\ last' = Last("into_value", p, 0, r.ret)
    /\ owned' = owned \ {p}
    /\ roots' = roots \ {p}
    /\ UNCHANGED <<joins, async>>

\* p.value(): a read of the cell.
ValueOp(p) ==
    /\ Running
    /\ p \in owned
    /\ last' = Last("value", p, 0, value(heap[p]))
    /\ UNCHANGED <<heap, log, panic, owned, roots, joins, async>>

\* The client's reads beside resolve, then and then_move.
NextValue ==
    \/ \E p \in 1..Len(heap) : Resolve(p, InputVal(p))
    \/ \E p \in 1..Len(heap) : ThenOp(p, "dbl")
    \/ \E p \in 1..Len(heap) : ThenMoveOp(p, "tpl")
    \/ \E p \in 1..Len(heap) : IntoValueOp(p)
    \/ \E p \in 1..Len(heap) : ValueOp(p)

SpecValue == Init /\ [][NextValue]_vars

\* Flattening: two promises P and R of the client; an inner promise is a
\* promise made before (R, or one derived from it) or Promise::resolved(..).
InitFlat ==
    /\ heap = <<Unresolved, Unresolved>>
    /\ log = <<>>
    /\ panic = NoPanic
    /\ owned = {1, 2}
    /\ roots = {1, 2}
    /\ joins = <<>>
    /\ last = Last("new", 0, 0, 2)
    /\ NoRunner

NextFlat ==
    \/ \E p \in 1..Len(heap) : Resolve(p, InputVal(p))
    \/ \E p \in 1..Len(heap) : ThenOp(p, "dbl")
    \/ \E p \in 1..Len(heap) : ThenMoveOp(p, "tpl")
    \/ \E p \in 1..Len(heap) : ThenPromiseOp(p)
    \/ \E p \in 1..Len(heap) : ThenMovePromiseOp(p)
    \/ \E p, q \in 1..Len(heap) : ThenPromiseCapturedOp(p, q)
    \/ \E p, q \in 1..Len(heap) : ThenMovePromiseCapturedOp(p, q)

SpecFlat == InitFlat /\ [][NextFlat]_vars

\* Joins: MaxInputs promises of the client, which makes one join of some of
\* them and resolves them in any order, before or after the join.
InitJoin ==
    /\ heap = [i \in 1..MaxInputs |-> Unresolved]
    /\ log = <<>>
    /\ panic = NoPanic
    /\ owned = 1..MaxInputs
    /\ roots = 1..MaxInputs
    /\ joins = <<>>
    /\ last = Last("new", 0, 0, MaxInputs)
    /\ NoRunner

CanJoin == Running /\ joins = <<>>

\* The input lists of the list join: the non-empty lists of distinct promises
\* (in the order the client made them: the promises differ in nothing else).
RECURSIVE SortedSeq(_)
SortedSeq(S) ==
    IF S = {} THEN <<>>
    ELSE LET m == CHOOSE x \in S : \A y \in S : x <= y
         IN  <<m>> \o SortedSeq(S \ {m})

InputLists ==
    {SortedSeq(S) : S \in {T \in SUBSET owned : T # {} /\ Cardinality(T) <= MaxInputs}}

JoinKinds == {"join", "join3", "join_vec"}

\* join(&mut a, &mut b)
JoinOp(a, b) ==
    /\ CanJoin
    /\ a \in owned /\ b \in owned /\ a < b
    /\ LET r == join(World, a, b)
       IN  /\ Commit(r.w)
           /\ owned' = owned \cup {r.p}
           /\ last' = Last("join", a, 0, r.p)
           /\ joins' = <<[kind |-> "join", inputs |-> <<a, b>>, out |-> r.p]>>
    /\ UNCHANGED <<roots, async>>

\* join3(&mut a, &mut b, &mut c)
Join3Op(a, b, c) ==
    /\ CanJoin
    /\ {a, b, c} \subseteq owned /\ a < b /\ b < c
    /\ LET r == join3(World, a, b, c)
       IN  /\ Commit(r.w)
           /\ owned' = owned \cup {r.p}
           /\ last' = Last("join3", a, 0, r.p)
           /\ joins' = <<[kind |-> "join3", inputs |-> <<a, b, c>>, out |-> r.p]>>
    /\ UNCHANGED <<roots, async>>

\* vec![&mut p0, ..].join()
JoinVecOp(ps) ==
    /\ CanJoin
    /\ LET r == join_vec(World, ps)
       IN  /\ Commit(r.w)
           /\ owned' = owned \cup {r.p}
           /\ last' = Last("join_vec", ps[1], 0, r.p)
           /\ joins' = <<[kind |-> "join_vec", inputs |-> ps, out |-> r.p]>>
    /\ UNCHANGED <<roots, async>>

\* vec![p0, ..].join(): the handles move into the call and are dropped at
\* its end; the client keeps the joined promise only.
JoinVecOwnedOp(ps) ==
    /\ CanJoin
    /\ LET r == join_vec_owned(World, ps)
           in == {ps[i] : i \in 1..Len(ps)}
       IN  /\ Commit(r.w)
           /\ owned' = (owned \ in) \cup {r.p}
           /\ roots' = roots \ in
           /\ last' = Last("join_vec_owned", ps[1], 0, r.p)
           /\ joins' = <<[kind |-> "join_vec", inputs |-> ps, out |-> r.p]>>
    /\ UNCHANGED async

NextJoin ==
    \/ \E p \in 1..Len(heap) : Resolve(p, InputVal(p))
    \/ \E a, b \in 1..Len(heap) : JoinOp(a, b)
    \/ \E a, b, c \in 1..Len(heap) : Join3Op(a, b, c)
    \/ CanJoin /\ \E ps \in InputLists : JoinVecOp(ps)
    \/ CanJoin /\ \E ps \in InputLists : JoinVecOwnedOp(ps)

SpecJoin == InitJoin /\ [][NextJoin]_vars

\* p is a Promise<i32>: the client made it before the join, whose promise
\* holds a tuple or a Vec and takes none of the client's i32 transforms.
IsInt(p) == \A n \in 1..Len(joins) : joins[n].kind \in JoinKinds => p < joins[n].out

\* The operations of the promise API together, on two promises P (1) and
\* R (2) of the client: every registration on P and on the promises derived,
\* by-reference continuations on R, and one join of P and R: the pair, the
\* triple with a derived promise, or the list.
NextOps ==
    \/ \E p \in 1..Len(heap) : Resolve(p, InputVal(p))
    \/ \E p \in 1..Len(heap) : IsInt(p) /\ ThenOp(p, "dbl")
    \/ \E p \in 1..Len(heap) : IsInt(p) /\ p # 2 /\ ThenMoveOp(p, "tpl")
    \/ \E p \in 1..Len(heap) : IsInt(p) /\ p # 2 /\ ThenPromiseOp(p)
    \/ \E p \in 1..Len(heap) : IsInt(p) /\ p # 2 /\ ThenMovePromiseOp(p)
    \/ JoinOp(1, 2)
    \/ \E c \in 1..Len(heap) : Join3Op(1, 2, c)
    \/ JoinVecOp(<<1, 2>>)
    \/ JoinVecOwnedOp(<<1, 2>>)

SpecOps == InitFlat /\ [][NextOps]_vars

----------------------------------------------------------------------------
\* AsyncRunner.  A job is its index in `jobs`, in submission order; its mpsc
\* channel is chan (the values sent and not yet received) with rx, whether
\* the Receiver is still alive.  The worker threads run beside the client, so
\* a try_resolve_all pass is a sequence of steps: the mem::replace, one
\* try_resolve per record, and the assignment of the collected Vec.

\* What job j's closure run() returns.
JobVal(j) == 10 * j

\* The runners: AsyncRunner::new() (0: a thread per job), new_pooled(1) and
\* new_pooled(2).
PoolModes == {0, 1, 2}

\* Mutant: the receive never finds the value.
try_recv_never(chan) == [ok |-> FALSE, value |-> 0]

\* Receiver::try_recv: Ok(value) when a value has been sent, else Err.
try_recv(chan) ==
    IF chan # <<>> THEN [ok |-> TRUE, value |-> Head(chan)]
    ELSE [ok |-> FALSE, value |-> 0]

\* Mutant: the filter keeps every record.
filter_keeps_all(kept, r, done) == Append(kept, r)

\* .filter(|r| !r.try_resolve()).collect(): the record is kept unless it resolved.
filter(kept, r, done) == IF done THEN kept ELSE Append(kept, r)

\* Mutant: the pass takes the records from the back.
next_record_last(todo) == Len(todo)

\* running.into_iter(): the next record of the pass is the first one left.
next_record(todo) == 1

Without(sq, i) == SubSeq(sq, 1, i - 1) \o SubSeq(sq, i + 1, Len(sq))

InitAsync ==
    /\ heap = <<>>
    /\ log = <<>>
    /\ panic = NoPanic
    /\ owned = {}
    /\ roots = {}
    /\ joins = <<>>
    /\ last = Last("new", 0, 0, 0)
    /\ running = <<>>
    /\ pool \in PoolModes
    /\ jobs = <<>>
    /\ poll = NoPoll

\* runner.exec_async(run)
ExecAsync ==
    /\ CanRegister
    /\ Len(jobs) < MaxJobs
    /\ LET j == Len(jobs) + 1
           p == Len(heap) + 1
       IN  /\ jobs' = Append(jobs, [st |-> "queued", chan |-> <<>>, rx |-> TRUE,
                                    p |-> p, missed |-> FALSE, ord |-> 0])
           /\ heap' = Append(heap, Unresolved)
           /\ running' = Append(running, [job |-> j, p |-> p])
           /\ owned' = owned \cup {p}
           /\ roots' = roots \cup {p}
           /\ last' = Last("exec_async", 0, j, p)
    /\ UNCHANGED <<log, panic, joins, pool, poll>>

\* The jobs whose result has been sent (ord: the how-manieth to be sent).
Delivered == {j \in 1..Len(jobs) : jobs[j].st = "done"}

\* Mutant: a pool thread that has run a job takes no further job.
JobStart_thread_not_freed(j) ==
    /\ jobs[j].st = "queued"
    /\ pool # 0 =>
          /\ Cardinality({i \in 1..Len(jobs) : jobs[i].st \in {"running", "done"}}) < pool
          /\ \A i \in 1..(j - 1) : jobs[i].st # "queued"
    /\ jobs' = [jobs EXCEPT ![j].st = "running"]
    /\ UNCHANGED <<heap, log, panic, owned, roots, joins, last, running, pool, poll>>

\* A worker thread takes up job j: the thread spawned for it, or a thread of
\* the pool that is free, the jobs leaving the pool's queue in the order
\* they were submitted.  The thread exists since exec_async returned and runs
\* whatever the client thread does, also after the client thread panicked.
JobStart(j) ==
    /\ jobs[j].st = "queued"
    /\ pool # 0 =>
          /\ Cardinality({i \in 1..Len(jobs) : jobs[i].st = "running"}) < pool
          /\ \A i \in 1..(j - 1) : jobs[i].st # "queued"
    /\ jobs' = [jobs EXCEPT ![j].st = "running"]
    /\ UNCHANGED <<heap, log, panic, owned, roots, joins, last, running, pool, poll>>

\* tx.send(run()) on the worker thread of job j.  The send fails, and the
\* worker panics, when the Receiver is gone: received from and dropped with
\* its record, or dropped by the unwinding of a pass that panicked.
JobSend(j) ==
    /\ jobs[j].st = "running"
    /\ jobs' = IF jobs[j].rx
               THEN [jobs EXCEPT ![j].st = "done", ![j].chan = Append(@, JobVal(j)),
                                 ![j].ord = Cardinality(Delivered) + 1]
               ELSE [jobs EXCEPT ![j].st = "failed"]    \* panic!("Thread error: ..")
    /\ UNCHANGED <<heap, log, panic, owned, roots, joins, last, running, pool, poll>>

\* try_resolve_all: let running = mem::replace(&mut self.running, Vec::new())
TryResolveAllBegin ==
    /\ Running
    /\ poll' = [on |-> TRUE, todo |-> running, kept |-> <<>>,
                before |-> running, avail |-> Delivered, at |-> Len(log)]
    /\ running' = <<>>
    /\ last' = Last("try_resolve_all", 0, 0, 0)
    /\ UNCHANGED <<heap, log, panic, owned, roots, joins, pool, jobs>>

\* Running::try_resolve on the next record of the pass, and the filter's
\* verdict on it.  A panic inside resolve unwinds the pass: the records not
\* yet collected and those collected are dropped, self.running stays empty.
TryResolve ==
    /\ panic = NoPanic /\ poll.on /\ poll.todo # <<>>
    /\ LET n == next_record(poll.todo)
           r == poll.todo[n]
           got == try_recv(jobs[r.job].chan)
           w == IF got.ok THEN resolve(World, r.p, got.value, "try_resolve")
                ELSE World
       IN  /\ Commit(w)
           /\ IF Ok(w)
              THEN /\ poll' = [poll EXCEPT !.todo = Without(@, n),
                                           !.kept = filter(@, r, got.ok)]
                   /\ jobs' = IF got.ok
                              THEN [jobs EXCEPT ![r.job].chan = Tail(@),
                                                ![r.job].rx = FALSE]
                              ELSE [jobs EXCEPT ![r.job].missed = TRUE]
              ELSE /\ poll' = NoPoll
                   /\ jobs' = [i \in 1..Len(jobs) |->
                                  IF i = r.job THEN [jobs[i] EXCEPT !.chan = Tail(@),
                                                                    !.rx = FALSE]
                                  ELSE IF \E k \in 1..Len(poll.before) :
                                             poll.before[k].job = i
                                       THEN [jobs[i] EXCEPT !.rx = FALSE]
                                       ELSE jobs[i]]
    /\ UNCHANGED <<owned, roots, joins, last, running, pool>>

\* self.running = <the records collected>
TryResolveAllEnd ==
    /\ panic = NoPanic /\ poll.on /\ poll.todo = <<>>
    /\ running' = poll.kept
    /\ poll' = NoPoll
    /\ last' = [last EXCEPT !.ret = 1,
                            !.pre = [tag |-> "Pass", before |-> poll.before,
                                     avail |-> poll.avail]]
    /\ UNCHANGED <<heap, log, panic, owned, roots, joins, pool, jobs>>

NextAsync ==
    \/ ExecAsync
    \/ \E j \in 1..Len(jobs) : JobStart(j)
    \/ \E j \in 1..Len(jobs) : JobSend(j)
    \/ TryResolveAllBegin
    \/ TryResolve
    \/ TryResolveAllEnd
    \/ \E j \in 1..Len(jobs) : ThenOp(jobs[j].p, "dbl")
    \/ jobs # <<>> /\ Resolve(jobs[1].p, JobVal(1) + 1)

SpecAsync == InitAsync /\ [][NextAsync]_vars

\* The runner alone, under the scheduling the liveness of the jobs rests on:
\* a thread that can take up or finish a job eventually does (the closures
\* terminate), and the caller keeps calling try_resolve_all and lets each
\* pass run to its end.
NextLive ==
    \/ ExecAsync
    \/ \E j \in 1..Len(jobs) : JobStart(j)
    \/ \E j \in 1..Len(jobs) : JobSend(j)
    \/ TryResolveAllBegin
    \/ TryResolve
    \/ TryResolveAllEnd

Fairness ==
    /\ \A j \in 1..MaxJobs : WF_vars(j <= Len(jobs) /\ JobStart(j))
    /\ \A j \in 1..MaxJobs : WF_vars(j <= Len(jobs) /\ JobSend(j))
    /\ WF_vars(TryResolveAllBegin)
    /\ WF_vars(TryResolve)
    /\ WF_vars(TryResolveAllEnd)

SpecLive == InitAsync /\ [][NextLive]_vars /\ Fairness

----------------------------------------------------------------------------
\* Reading the history.

\* The by-value continuation queued in a state: <<t>>, or <<>> when none is.
RECURSIVE MoveOf(_)
MoveOf(st) ==
    CASE st.tag = "ThenMove" -> <<st.t>>
      [] st.tag = "Then" -> MoveOf(st.then)
      [] OTHER -> <<>>

Idx == 1..Len(log)

\* The registrations the log holds: a closure is named by its kind and target.
RegIdx == {i \in Idx : log[i].ev = "reg"}

Begins(i) == {j \in Idx : log[j].ev = "begin" /\ log[j].k = log[i].k /\ log[j].p = log[i].p}

Ends(i) == {j \in Idx : log[j].ev = "end" /\ log[j].k = log[i].k /\ log[j].p = log[i].p}

\* The resolutions of promise p: by its constructor, the client or a closure.
ResolvedIdx(p) == {j \in Idx : log[j].ev = "resolved" /\ log[j].p = p}

\* The client's successful resolve calls on p.
ResolveCalls(p) == {j \in ResolvedIdx(p) : log[j].k = "resolve"}

\* The registrations on p of the given kinds that succeeded.
RegsOn(p, kinds) == {i \in RegIdx : log[i].src = p /\ log[i].k \in kinds}

\* Those made before position at of the log and not yet fired there: the
\* continuations queued on p when the call logged from at + 1 on began.
PendingAt(p, at, kinds) ==
    {i \in RegsOn(p, kinds) : i <= at /\ \A j \in Begins(i) : j > at}

MoveKinds == {"then_move", "then_move_promise"}

ResolveDone == last.op = "resolve" /\ Running

----------------------------------------------------------------------------
\* C1 (move-once law): on any promise at most one then_move / then_move_promise
\* call ever succeeds, whatever the order of the two calls and resolve.
C1_MoveOnce ==
    \A p \in 1..Len(heap) : Cardinality(RegsOn(p, MoveKinds)) <= 1

\* C2 (DoubleResolve): at most one resolve call on a given promise succeeds;
\* a promise resolved once never accepts a second value.
C2_SingleResolve ==
    \A p \in 1..Len(heap) : Cardinality(ResolvedIdx(p)) <= 1

\* C3 (exactly-once firing): no accepted continuation fires twice, and none
\* is still unfired once the promise it was registered on has been resolved.
C3_ExactlyOnce ==
    \A i \in RegIdx :
        /\ Cardinality(Begins(i)) <= 1
        /\ (ResolvedIdx(log[i].src) # {} /\ Running) => Cardinality(Begins(i)) = 1

\* C4 (order law): a successful resolve fires the by-reference continuations
\* queued on the promise in registration order, each one ending (a then's
\* derived promise resolved inside it) before the next begins.
C4_OrderLaw ==
    ResolveDone =>
        LET P == PendingAt(last.self, last.at, ByRefKinds)
        IN  \A i \in P :
                \E b \in Begins(i), e \in Ends(i) :
                    /\ last.at < b /\ b < e
                    /\ log[i].k = "then" =>
                          \E r \in ResolvedIdx(log[i].p) : b < r /\ r < e
                    /\ \A i2 \in P : i < i2 => \A b2 \in Begins(i2) : e < b2

\* Three then continuations were queued and a resolve fired them.
C4_Witness ==
    /\ ResolveDone
    /\ Cardinality(PendingAt(last.self, last.at, {"then"})) >= 3

\* C5 (by-reference before by-value): a successful resolve fires every queued
\* by-reference continuation to its end before the queued by-value one, which
\* is passed the resolved value, wherever then_move was registered among the
\* then calls; and a then call leaves the queued by-value continuation as it was.
C5_RefBeforeMove ==
    /\ ResolveDone =>
          LET R == PendingAt(last.self, last.at, ByRefKinds)
              M == PendingAt(last.self, last.at, MoveKinds)
          IN  \A m \in M : \E bm \in Begins(m) :
                  /\ bm > last.at
                  /\ log[bm].v = last.v
                  /\ \A r \in R : \E e \in Ends(r) : last.at < e /\ e < bm
    /\ (last.op \in ByRefKinds /\ Running /\ MoveOf(last.pre) # <<>>) =>
          MoveOf(heap[last.self]) = MoveOf(last.pre)

\* then, then_move, then were registered in this order and a resolve fired them.
C5_Witness ==
    /\ ResolveDone
    /\ \E m \in PendingAt(last.self, last.at, MoveKinds) :
       \E r1, r2 \in PendingAt(last.self, last.at, ByRefKinds) : r1 < m /\ m < r2

\* No continuation was ever registered on p.
Untouched(p) == RegsOn(p, ByRefKinds \cup ByValueKinds) = {}

\* C6 (chained result): after resolve(p, v) on a promise with p2 = p.then(f)
\* and p3 = p.then_move(g) queued, p2 holds f(v), p3 holds g(v) and p.value()
\* is empty (p2, p3 being promises nothing was registered on).
C6_Chained ==
    ResolveDone =>
        LET P == PendingAt(last.self, last.at, {"then", "then_move"})
        IN  /\ \A i \in P : Untouched(log[i].p) =>
                  heap[log[i].p] = Resolved(ApplyFn(log[i].v, <<>>, last.v))
            /\ PendingAt(last.self, last.at, MoveKinds) # {} =>
                  value(heap[last.self]) = <<>>

\* p2 = p.then(dbl), p3 = p.then_move(tpl), p.resolve(5): 10 and 15.
C6_Witness ==
    /\ ResolveDone /\ last.v = 5
    /\ \E i, j \in PendingAt(last.self, last.at, {"then", "then_move"}) :
          /\ log[i].k = "then" /\ log[i].v = "dbl" /\ heap[log[i].p] = Resolved(10)
          /\ log[j].k = "then_move" /\ log[j].v = "tpl" /\ heap[log[j].p] = Resolved(15)
          /\ i < j
    /\ value(heap[last.self]) = <<>>

\* C7 (synchronous firing): then(f) / then_move(f) on a promise in state
\* Resolved(v) runs f inside the call and queues nothing: the returned promise
\* holds f(v); then leaves the source Resolved(v), then_move leaves it Moved.
C7_SyncFiring ==
    (last.op \in {"then", "then_move"} /\ last.pre.tag = "Resolved") =>
        /\ Running
        /\ heap[last.ret] = Resolved(ApplyFn(last.v, <<>>, last.pre.value))
        /\ \E b \in Idx : /\ log[b].ev = "begin" /\ log[b].k = last.op
                          /\ log[b].p = last.ret /\ b > last.at
        /\ last.op = "then" => heap[last.self] = last.pre
        /\ last.op = "then_move" => heap[last.self] = Moved

\* A then and a then_move were each called on a promise holding 5.
C7_Witness ==
    /\ last.op = "then_move" /\ last.pre = Resolved(5) /\ last.v = "tpl"
    /\ heap[last.ret] = Resolved(15)
    /\ \E i \in RegsOn(last.self, {"then"}) : heap[log[i].p] = Resolved(10)

FlatKinds == {"then_promise", "then_move_promise"}

HasResolved(p) == ResolvedIdx(p) # {}

\* The first resolution of p in the log.
FirstRes(p) == CHOOSE j \in ResolvedIdx(p) : \A k \in ResolvedIdx(p) : j <= k

\* The registration of the flattening that returned outer.
FlatReg(outer) == {i \in RegIdx : log[i].k \in FlatKinds /\ log[i].p = outer}

\* C8 (flattening): for outer = p.then_promise(t) / p.then_move_promise(t)
\* with t returning the inner promise q, in every state in which no call has
\* panicked: outer has not been resolved while p or q has not been, and once
\* both have been resolved outer has been resolved and (nothing having been
\* registered on it) holds q's value, for q resolved before or after t
\* returned it and p resolved before or after the registration.  For a
\* transform returning Promise::resolved(2 * v), q is resolved as soon as
\* it exists: once p has been resolved, outer has been.
C8_Flattening ==
    panic = NoPanic =>
        /\ \A n \in 1..Len(joins) : joins[n].kind \in FlatKinds =>
              LET p == joins[n].inputs[1]
                  q == joins[n].inputs[2]
                  outer == joins[n].out
              IN  /\ HasResolved(outer) => (HasResolved(p) /\ HasResolved(q))
                  /\ (HasResolved(p) /\ HasResolved(q)) =>
                        /\ HasResolved(outer)
                        /\ Untouched(outer) =>
                              heap[outer] = Resolved(log[FirstRes(q)].v)
        /\ \A i \in RegIdx :
              ( /\ log[i].k \in FlatKinds /\ log[i].v = "resolved_dbl"
                /\ HasResolved(log[i].src) ) =>
                    HasResolved(log[i].p)

\* C9 (join commutativity): for j = join(A, B), once A has been resolved with
\* a and B with b, in either order and before or after the join call, j holds
\* the tuple (a, b).
C9_JoinCommutes ==
    \A n \in 1..Len(joins) :
        LET A == joins[n].inputs[1]
            B == joins[n].inputs[2]
        IN  (joins[n].kind = "join" /\ HasResolved(A) /\ HasResolved(B)) =>
                heap[joins[n].out] =
                    Resolved(<<log[FirstRes(A)].v, log[FirstRes(B)].v>>)

\* j = join(A, B) was made first, then B was resolved, then A.
C9_Witness ==
    \E n \in 1..Len(joins) :
        LET A == joins[n].inputs[1]
            B == joins[n].inputs[2]
        IN  /\ joins[n].kind = "join"
            /\ HasResolved(A) /\ HasResolved(B)
            /\ \E i \in FlatReg(joins[n].out) : i < FirstRes(B)
            /\ FirstRes(B) < FirstRes(A)
            /\ heap[joins[n].out] = Resolved(<<5, 7>>)

\* C10 (join waits for all inputs): the promise a pair, triple or list join
\* returned holds a value, or has been resolved, only if every input has
\* been resolved.
C10_JoinWaits ==
    \A n \in 1..Len(joins) :
        (/\ joins[n].kind \in JoinKinds
         /\ value(heap[joins[n].out]) # <<>> \/ HasResolved(joins[n].out)) =>
            \A k \in 1..Len(joins[n].inputs) : HasResolved(joins[n].inputs[k])

\* A join3 whose third and first inputs have been resolved, in this order,
\* the second not: the joined promise is unresolved.
C10_Witness ==
    \E n \in 1..Len(joins) :
        LET in == joins[n].inputs
        IN  /\ joins[n].kind = "join3"
            /\ HasResolved(in[1]) /\ ~HasResolved(in[2]) /\ HasResolved(in[3])
            /\ FirstRes(in[3]) < FirstRes(in[1])
            /\ value(heap[joins[n].out]) = <<>>
            /\ Running

\* C11 (list-join order): for the list join of [p0, .., pn-1], n >= 1, once
\* every pi has been resolved with vi, in any order and before or after the
\* join call, the joined promise holds exactly [v0, .., vn-1] in input order.
C11_ListJoinOrder ==
    \A n \in 1..Len(joins) :
        LET in == joins[n].inputs
        IN  (/\ joins[n].kind = "join_vec"
             /\ \A k \in 1..Len(in) : HasResolved(in[k])) =>
                heap[joins[n].out] =
                    Resolved([k \in 1..Len(in) |-> log[FirstRes(in[k])].v])

\* The list join of three promises, made first; the third was resolved first
\* and the first last, and the joined promise holds [5, 7, 9].
C11_Witness ==
    \E n \in 1..Len(joins) :
        LET in == joins[n].inputs
        IN  /\ joins[n].kind = "join_vec" /\ Len(in) = 3
            /\ \A k \in 1..3 : HasResolved(in[k])
            /\ \E i \in FlatReg(joins[n].out) : i < FirstRes(in[3])
            /\ FirstRes(in[3]) < FirstRes(in[2])
            /\ FirstRes(in[2]) < FirstRes(in[1])
            /\ heap[joins[n].out] = Resolved(<<5, 7, 9>>)

----------------------------------------------------------------------------
\* Reading the runner.

JobIdx == 1..Len(jobs)

\* The records the runner holds: in self.running, or in the hands of the
\* pass in progress.
Records == running \o poll.todo \o poll.kept

\* The records of job j.
RecordsOf(j) == {k \in 1..Len(Records) : Records[k].job = j}

Pending(j) == RecordsOf(j) # {}

\* A try_resolve_all pass has returned, and the client has made no call since.
PollDone == last.op = "try_resolve_all" /\ last.ret = 1

\* The jobs whose promise was resolved after position at of the log.
ResolvedAfter(at) == {j \in JobIdx : \E r \in ResolvedIdx(jobs[j].p) : r > at}

\* The client has left the resolving of job j's promise to the runner: it
\* has not called resolve on it itself.
RunnerOnly(j) == ResolveCalls(jobs[j].p) = {}

\* C12 (async round trip), for a job whose promise the client does not
\* resolve itself: the promise exec_async returns is unresolved when the
\* call returns; while the job has not delivered its result, whatever
\* passes of try_resolve_all are made, the promise is unresolved and (no
\* call having panicked) the job pending; when a pass that began after the
\* delivery has returned, the job's promise has been resolved with f()'s
\* result and value() returns it (unless a by-value continuation took it).
C12_AsyncRoundTrip ==
    /\ last.op = "exec_async" =>
          heap[last.ret] = Unresolved /\ Pending(last.v)
    /\ \A j \in JobIdx : (RunnerOnly(j) /\ jobs[j].st \in {"queued", "running"}) =>
          /\ value(heap[jobs[j].p]) = <<>>
          /\ ~HasResolved(jobs[j].p)
          /\ panic = NoPanic => Pending(j)
    /\ PollDone =>
          \A j \in {i \in last.pre.avail : RunnerOnly(i)} :
              /\ HasResolved(jobs[j].p)
              /\ log[FirstRes(jobs[j].p)].v = JobVal(j)
              /\ ~Pending(j)
              /\ RegsOn(jobs[j].p, MoveKinds) = {} =>
                    value(heap[jobs[j].p]) = <<JobVal(j)>>

\* A pass found job j undelivered and kept it; a later pass, begun after the
\* delivery, resolved its promise, whose value() is f()'s result.
C12_Witness ==
    /\ PollDone
    /\ \E j \in last.pre.avail :
          /\ jobs[j].missed
          /\ FirstRes(jobs[j].p) > last.at
          /\ value(heap[jobs[j].p]) = <<JobVal(j)>>

\* C13 (resolution only inside try_resolve_all): while a job's result sits
\* in its channel the promise is unresolved, unless the client resolved it
\* itself; a job's promise is resolved by the client's own resolve or by
\* try_resolve, never from a worker thread, and by try_resolve at most once;
\* while no call has panicked, a record exists if and only if the runner
\* has not resolved the promise; and a pass leaves in self.running exactly
\* the records it did not resolve, in their order, having resolved every
\* job delivered before it began and none undelivered.
C13_ResolveOnlyInPoll ==
    /\ \A j \in JobIdx :
          /\ (RunnerOnly(j) /\ jobs[j].chan # <<>>) =>
                /\ value(heap[jobs[j].p]) = <<>>
                /\ ~HasResolved(jobs[j].p)
          /\ \A r \in ResolvedIdx(jobs[j].p) : log[r].k \in {"try_resolve", "resolve"}
          /\ Cardinality(ResolvedIdx(jobs[j].p) \ ResolveCalls(jobs[j].p)) <= 1
          /\ value(heap[jobs[j].p]) # <<>> => HasResolved(jobs[j].p)
          /\ panic = NoPanic =>
                (Pending(j) <=> ResolvedIdx(jobs[j].p) \ ResolveCalls(jobs[j].p) = {})
          /\ Cardinality(RecordsOf(j)) <= 1
    /\ PollDone =>
          LET before == last.pre.before
              now == ResolvedAfter(last.at)
          IN  /\ running = SelectSeq(before, LAMBDA r : r.job \notin now)
              /\ \A j \in now : \E k \in 1..Len(before) : before[k].job = j
              /\ \A k \in 1..Len(before) :
                    /\ before[k].job \in last.pre.avail => before[k].job \in now
                    /\ before[k].job \in now => jobs[before[k].job].st = "done"

\* A pass over two records resolved the second job and kept the first,
\* whose result arrived after the pass had looked at it.
C13_Witness ==
    /\ PollDone
    /\ Len(last.pre.before) = 2
    /\ ResolvedAfter(last.at) = {2}
    /\ Len(running) = 1 /\ running[1].job = 1
    /\ jobs[1].chan # <<>>

\* The value of p had been consumed by a by-value continuation when the call
\* logged from at + 1 on began: on the fast path of then_move /
\* then_move_promise, or by a queued one fired during resolve.
Consumed(p, at) ==
    \E m \in RegsOn(p, MoveKinds) : \E b \in Begins(m) : b <= at

\* C14 (BorrowAfterMoved): then / then_promise on a promise whose value a
\* by-value continuation has consumed panics, and the continuation is neither
\* run nor queued.
C14_BorrowAfterMoved ==
    (last.op \in ByRefKinds /\ Consumed(last.self, last.at)) =>
        /\ panic # NoPanic
        /\ Len(log) = last.at
        /\ heap[last.self] = last.pre

\* The resolutions of p before the call logged from at + 1 on.
ResolvedBefore(p, at) == {r \in ResolvedIdx(p) : r <= at}

AllKinds == ByRefKinds \cup ByValueKinds

\* C15 (into_value): into_value returns v exactly when the state is
\* Resolved(v), and leaves the state Moved; in every other state (never
\* resolved, continuations queued, value moved out) it panics and returns
\* nothing.  It fires and registers nothing.
C15_IntoValue ==
    last.op = "into_value" =>
        /\ IF last.pre.tag = "Resolved"
           THEN /\ panic = NoPanic
                /\ last.ret = <<last.pre.value>>
                /\ heap[last.self] = Moved
           ELSE /\ panic = "Trying to call into_value on non-value promise."
                /\ last.ret = <<>>
        /\ last.ret # <<>> =>
              \E r \in ResolvedBefore(last.self, last.at) : log[r].v = last.ret[1]
        /\ ( \/ ResolvedBefore(last.self, last.at) = {}
             \/ PendingAt(last.self, last.at, AllKinds) # {}
             \/ last.pre.tag = "Moved" ) =>
              panic # NoPanic /\ last.ret = <<>>
        /\ Len(log) = last.at

\* into_value on the promise of p.then(dbl), after p.resolve(5), returned 10.
C15_Witness ==
    /\ last.op = "into_value" /\ last.ret = <<10>>
    /\ heap[last.self] = Moved /\ panic = NoPanic
    /\ \E i \in RegsOn(1, {"then"}) : log[i].p = last.self

\* C16 (value): value() returns v if and only if the state is Resolved(v):
\* after resolve(p, v) with no by-value continuation registered on p it
\* returns v; on an unresolved promise, with continuations queued or after
\* a move, it returns nothing and does not panic.  It leaves the state as it
\* was and fires nothing.
C16_Value ==
    /\ last.op = "value" =>
          /\ panic = NoPanic
          /\ last.ret = (IF last.pre.tag = "Resolved" THEN <<last.pre.value>> ELSE <<>>)
          /\ heap[last.self] = last.pre
          /\ Len(log) = last.at
          /\ (HasResolved(last.self) /\ RegsOn(last.self, MoveKinds) = {}) =>
                last.ret = <<log[FirstRes(last.self)].v>>
          /\ ( \/ ~HasResolved(last.self)
               \/ PendingAt(last.self, last.at, AllKinds) # {}
               \/ last.pre.tag = "Moved" ) => last.ret = <<>>
    /\ (ResolveDone /\ PendingAt(last.self, last.at, MoveKinds) = {}) =>
          value(heap[last.self]) = <<last.v>>

\* p.then(dbl); p.resolve(5); p.value() returned 5.
C16_Witness ==
    /\ last.op = "value" /\ last.ret = <<5>>
    /\ \E i \in RegsOn(last.self, {"then"}) : i < FirstRes(last.self)

\* The shape of a state: a Then holds at least one continuation and wraps
\* Unresolved or a ThenMove, never a Then, Resolved or Moved.
Shape(st) ==
    \/ st.tag \in {"Unresolved", "Moved"}
    \/ st.tag = "Resolved" /\ DOMAIN st = {"tag", "value"}
    \/ st.tag = "ThenMove" /\ st.t.k \in ByValueKinds
    \/ /\ st.tag = "Then"
       /\ st.ts # <<>>
       /\ \A i \in 1..Len(st.ts) : st.ts[i].k \in ByRefKinds
       /\ \/ st.then.tag = "Unresolved"
          \/ st.then.tag = "ThenMove" /\ st.then.t.k \in ByValueKinds

\* The by-value continuations queued in a state chain.
RECURSIVE MoveCount(_)
MoveCount(st) ==
    CASE st.tag = "ThenMove" -> 1
      [] st.tag = "Then" -> MoveCount(st.then)
      [] OTHER -> 0

\* How deep Then is nested in a state.
RECURSIVE ThenDepth(_)
ThenDepth(st) == IF st.tag = "Then" THEN 1 + ThenDepth(st.then) ELSE 0

\* C17 (state shape): after any sequence of resolve / then / then_move /
\* *_promise / join calls every promise is Unresolved, Moved, Resolved(v),
\* ThenMove(c) or Then(cs, nested) with cs non-empty and nested Unresolved or
\* ThenMove(c): at most one by-value continuation is queued in a state, and
\* Then is not nested in Then.
C17_StateShape ==
    \A p \in 1..Len(heap) :
        /\ Shape(heap[p])
        /\ MoveCount(heap[p]) <= 1
        /\ ThenDepth(heap[p]) <= 1

\* A promise with two by-reference continuations queued around a by-value
\* one, beside a promise whose value was moved out.
C17_Witness ==
    /\ \E p \in 1..Len(heap) :
          /\ heap[p].tag = "Then" /\ Len(heap[p].ts) >= 2
          /\ heap[p].then.tag = "ThenMove"
    /\ \E q \in 1..Len(heap) : heap[q] = Moved

\* The pair joins made.
PairJoins == {n \in 1..Len(joins) : joins[n].kind = "join"}

\* The registrations of the join's outer closure |x1| .. on p1, and of its
\* inner closure |x2| (x1, x2) on p2.
JoinOuterRegs(n) ==
    {i \in RegIdx : log[i].k = "then_move_promise" /\ log[i].p = joins[n].out}

JoinInnerRegs(n) ==
    {i \in RegIdx : log[i].v = "pair" /\ log[i].src = joins[n].inputs[2]}

\* Between the join call and the firing of its outer closure by resolve(p1).
InWindow(n) ==
    \E i \in JoinOuterRegs(n) : log[i].src = joins[n].inputs[1] /\ Begins(i) = {}

\* The events logged from position at + 1 on.
EventsAfter(at) == {e \in Idx : e > at}

\* C18 (join registration sequencing): join(p1, p2) on an unresolved p1
\* queues a by-value continuation on p1 and leaves p2 alone; the continuation
\* on p2 is registered inside the outer closure, fired by resolve(p1) or, p1
\* being resolved, by the join call.  Until then p2 holds no by-value
\* continuation and only what the client itself did to it, and resolve(p2)
\* stores the value and fires nothing of the join.
C18_JoinSequencing ==
    \A n \in PairJoins :
        LET p1 == joins[n].inputs[1]
            p2 == joins[n].inputs[2]
            j == joins[n].out
        IN  /\ (last.op = "join" /\ panic = NoPanic) =>
                  /\ JoinOuterRegs(n) # {}
                  /\ \A i \in JoinOuterRegs(n) : log[i].src = p1
                  /\ last.pre.tag # "Resolved" =>
                        /\ InWindow(n)
                        /\ MoveOf(heap[p1]) # <<>>
                        /\ MoveOf(heap[p1])[1].target = j
                  /\ last.pre.tag = "Resolved" =>
                        \E r \in JoinInnerRegs(n) : r > last.at
            /\ \A r \in JoinInnerRegs(n) :
                  \E i \in JoinOuterRegs(n) : \E b \in Begins(i) :
                      /\ b < r
                      /\ \A e \in Ends(i) : r < e
                      /\ \E a \in ResolvedIdx(p1) \cup {i} : b < a
            /\ InWindow(n) =>
                  /\ JoinInnerRegs(n) = {}
                  /\ MoveOf(heap[p2]) = <<>>
                  /\ ~HasResolved(j) /\ heap[j] = Unresolved
                  /\ (HasResolved(p2) /\ panic = NoPanic) =>
                        heap[p2] = Resolved(log[FirstRes(p2)].v)
                  /\ ~HasResolved(p2) =>
                        \/ heap[p2] = Unresolved
                        \/ heap[p2].tag = "Then" /\ heap[p2].then = Unresolved
                  /\ (ResolveDone /\ last.self = p2) =>
                        /\ heap[p2] = Resolved(last.v)
                        /\ \A e \in EventsAfter(last.at) :
                              /\ log[e].p # j
                              /\ log[e].ev = "reg" => log[e].v # "pair"

\* j = join(P, R) was made on two unresolved promises, R with a then queued;
\* R was resolved and is Resolved(7), its then fired (14), P still holds the
\* join's continuation and j is unresolved.
C18_Witness ==
    \E n \in PairJoins :
        LET p1 == joins[n].inputs[1]
            p2 == joins[n].inputs[2]
        IN  /\ InWindow(n)
            /\ ResolveDone /\ last.self = p2
            /\ heap[p2] = Resolved(7)
            /\ \E c \in PendingAt(p2, last.at, {"then"}) : heap[log[c].p] = Resolved(14)
            /\ heap[p1].tag = "ThenMove"
            /\ heap[joins[n].out] = Unresolved

\* The log position at which the pass in progress, or the pass that has
\* returned, began.
PassAt == IF poll.on THEN poll.at ELSE last.at

\* The events of job j in the log: the resolution of its promise and the
\* firing of the continuations registered on it.
JobEvents(j) ==
    ResolvedIdx(jobs[j].p)
        \cup UNION {Begins(c) \cup Ends(c) : c \in RegsOn(jobs[j].p, AllKinds)}

Increasing(recs) ==
    \A k, l \in 1..Len(recs) : k < l => recs[k].job < recs[l].job

\* C20 (poll order): within one try_resolve_all pass the promises of the
\* jobs found delivered are resolved, their continuations fired, in
\* submission order, whatever the order the jobs completed in; the records
\* kept are in submission order.
C20_PollOrder ==
    /\ Increasing(running)
    /\ Increasing(poll.todo) /\ Increasing(poll.kept)
    /\ (poll.on \/ PollDone) =>
          \A i, j \in ResolvedAfter(PassAt) : i < j =>
              \A ei \in JobEvents(i), ej \in JobEvents(j) :
                  (ei > PassAt /\ ej > PassAt) => ei < ej

\* Job 2 completed before job 1; one pass resolved both, job 1 first, each
\* with a continuation that fired.
C20_Witness ==
    /\ PollDone
    /\ ResolvedAfter(last.at) = {1, 2}
    /\ jobs[2].ord < jobs[1].ord
    /\ FirstRes(jobs[1].p) < FirstRes(jobs[2].p)
    /\ \A j \in {1, 2} : \E c \in RegsOn(jobs[j].p, {"then"}) :
          \E b \in Begins(c) : b > last.at

\* Job j has been submitted.
Submitted(j) == j <= Len(jobs)

\* Job j's promise holds the job's result and its record is gone.
Settled(j) ==
    /\ Submitted(j)
    /\ HasResolved(jobs[j].p)
    /\ heap[jobs[j].p] = Resolved(JobVal(j))
    /\ ~Pending(j)

\* C19 (async liveness): with terminating job closures, fairly scheduled
\* worker threads and a caller that keeps calling try_resolve_all, every
\* promise exec_async returned is eventually resolved with its job's result
\* and its record removed, with a thread per job and with a pool, also of
\* fewer threads than jobs.
C19_AsyncLiveness ==
    \A j \in 1..MaxJobs : Submitted(j) ~> Settled(j)

\* A pool of one thread was given two jobs; both are settled, the second
\* after a pass that found it not yet delivered.
C19_Witness ==
    /\ pool = 1
    /\ Len(jobs) >= 2
    /\ \A j \in JobIdx : Settled(j)
    /\ jobs[2].missed
    /\ running = <<>>

====
